---- MODULE Spec2Model ----
(***************************************************************************)
(* Task Management API (src/app.py): the tasks table and the create, get,  *)
(* update and delete handlers that act on it.                              *)
(*                                                                         *)
(* Text is a sequence of one-character strings, so that trimming and date  *)
(* parsing are computed on the characters.  A JSON value is a tagged       *)
(* record; a JSON object (a request payload) is a function from its keys   *)
(* to JSON values.  A cell of the table is NULL, TEXT or INTEGER, written  *)
(* with the same tags.                                                     *)
(***************************************************************************)
EXTENDS Integers, Sequences, FiniteSets, TLC

VARIABLES
    db,        \* the tasks table: id -> row
    seq,       \* sqlite_sequence of tasks: the largest id ever assigned
    clock,     \* the number of timestamps read so far (the server's UTC clock)
    exch,      \* the HTTP exchange whose response has not been delivered yet
    inflight,  \* an update_task request between its existence probe and its write
    created,   \* history: the ids create_task has ever returned
    applied    \* history: the ids that answered 200 to an update carrying a column

vars == <<db, seq, clock, exch, inflight, created, applied>>

\* Bounds of the model.
MaxId == 2       \* ids the storage may assign
MaxClock == 3    \* timestamps the clock may hand out

----------------------------------------------------------------------------
\* JSON / SQL values

Null == [t |-> "null"]
Str(s) == [t |-> "str", s |-> s]
Num(n) == [t |-> "num", n |-> n]
Bool(b) == [t |-> "bool", b |-> b]
\* datetime.now(timezone.utc).isoformat().replace('+00:00', 'Z') at clock tick n
Timestamp(n) == [t |-> "ts", tick |-> n]

\* Python truthiness of a JSON value (`not x`, `x and ...`)
Truthy(v) ==
    CASE v.t = "null" -> FALSE
      [] v.t = "str" -> v.s # <<>>
      [] v.t = "num" -> v.n # 0
      [] v.t = "bool" -> v.b
      [] OTHER -> TRUE

\* dict.get(key): None when the key is absent
Get(data, key) == IF key \in DOMAIN data THEN data[key] ELSE Null

\* How sqlite3 binds a Python value: bool is stored as the integer 0 or 1
Bind(v) == IF v.t = "bool" THEN Num(IF v.b THEN 1 ELSE 0) ELSE v

----------------------------------------------------------------------------
\* str.strip()

Whitespace == {" ", "\t", "\n"}

RECURSIVE lstrip(_)
lstrip(s) ==
    IF s # <<>> /\ Head(s) \in Whitespace THEN lstrip(Tail(s)) ELSE s

RECURSIVE rstrip(_)
rstrip(s) ==
    IF s # <<>> /\ s[Len(s)] \in Whitespace
    THEN rstrip(SubSeq(s, 1, Len(s) - 1))
    ELSE s

strip(s) == rstrip(lstrip(s))

----------------------------------------------------------------------------
\* validate_date: datetime.fromisoformat(date_str.replace('Z', '+00:00'))

RECURSIVE replace_Z(_)
replace_Z(s) ==
    IF s = <<>> THEN <<>>
    ELSE IF Head(s) = "Z"
         THEN <<"+", "0", "0", ":", "0", "0">> \o replace_Z(Tail(s))
         ELSE <<Head(s)>> \o replace_Z(Tail(s))

Digits == {"0", "1", "2", "3", "4", "5", "6", "7", "8", "9"}

DigitVal(c) ==
    CASE c = "0" -> 0 [] c = "1" -> 1 [] c = "2" -> 2 [] c = "3" -> 3
      [] c = "4" -> 4 [] c = "5" -> 5 [] c = "6" -> 6 [] c = "7" -> 7
      [] c = "8" -> 8 [] c = "9" -> 9

AllDigits(s) == \A i \in 1..Len(s) : s[i] \in Digits

RECURSIVE ToInt(_)
ToInt(s) ==
    IF s = <<>> THEN 0
    ELSE 10 * ToInt(SubSeq(s, 1, Len(s) - 1)) + DigitVal(s[Len(s)])

IsLeap(y) == (y % 4 = 0 /\ y % 100 # 0) \/ y % 400 = 0

DaysInMonth(y, m) ==
    IF m = 2 THEN (IF IsLeap(y) THEN 29 ELSE 28)
    ELSE IF m \in {4, 6, 9, 11} THEN 30 ELSE 31

\* YYYY-MM-DD
IsoDate(s) ==
    /\ Len(s) = 10
    /\ s[5] = "-" /\ s[8] = "-"
    /\ AllDigits(SubSeq(s, 1, 4)) /\ AllDigits(SubSeq(s, 6, 7))
    /\ AllDigits(SubSeq(s, 9, 10))
    /\ LET y == ToInt(SubSeq(s, 1, 4))
           m == ToInt(SubSeq(s, 6, 7))
           d == ToInt(SubSeq(s, 9, 10))
       IN  y >= 1 /\ m \in 1..12 /\ d >= 1 /\ d <= DaysInMonth(y, m)

\* HH, HH:MM or HH:MM:SS
IsoTime(s) ==
    /\ Len(s) \in {2, 5, 8}
    /\ AllDigits(SubSeq(s, 1, 2)) /\ ToInt(SubSeq(s, 1, 2)) < 24
    /\ Len(s) >= 5 =>
         s[3] = ":" /\ AllDigits(SubSeq(s, 4, 5)) /\ ToInt(SubSeq(s, 4, 5)) < 60
    /\ Len(s) >= 8 =>
         s[6] = ":" /\ AllDigits(SubSeq(s, 7, 8)) /\ ToInt(SubSeq(s, 7, 8)) < 60

\* +HH:MM or -HH:MM
IsoOffset(s) ==
    /\ Len(s) = 6
    /\ s[1] \in {"+", "-"} /\ s[4] = ":"
    /\ AllDigits(SubSeq(s, 2, 3)) /\ AllDigits(SubSeq(s, 5, 6))
    /\ ToInt(SubSeq(s, 2, 3)) < 24
    /\ ToInt(SubSeq(s, 5, 6)) < 60

\* A time of day, alone or followed by a UTC offset
IsoTimeTz(s) ==
    \/ IsoTime(s)
    \/ /\ Len(s) > 6
       /\ IsoTime(SubSeq(s, 1, Len(s) - 6))
       /\ IsoOffset(SubSeq(s, Len(s) - 5, Len(s)))

\* The extended ISO 8601 forms datetime.fromisoformat accepts, without
\* fractional seconds: a date, or a date, any one character, and a time of
\* day with an optional UTC offset.  Every other text raises ValueError.
fromisoformat_ok(s) ==
    \/ IsoDate(s)
    \/ /\ Len(s) >= 13
       /\ IsoDate(SubSeq(s, 1, 10))
       /\ IsoTimeTz(SubSeq(s, 12, Len(s)))

validate_date(date_str) == fromisoformat_ok(replace_Z(date_str))

----------------------------------------------------------------------------
\* The tasks table

PayloadColumns == {"title", "description", "due_date", "completed"}

\* cursor.lastrowid of an INSERT: INTEGER PRIMARY KEY AUTOINCREMENT assigns
\* one more than the largest id the table has ever held
MaxOf(S) == IF S = {} THEN 0 ELSE CHOOSE m \in S : \A x \in S : x <= m

lastrowid_reuse(table, sequence) == MaxOf(DOMAIN table) + 1

lastrowid(table, sequence) == MaxOf(DOMAIN table \cup {sequence}) + 1

\* INSERT INTO tasks (title, description, due_date, completed, created_at);
\* updated_at is not named and has no default: NULL
SqlInsert(table, id, title, description, due_date, completed, created_at) ==
    [i \in DOMAIN table \cup {id} |->
        IF i = id
        THEN [id |-> id, title |-> Bind(title), description |-> Bind(description),
              due_date |-> Bind(due_date), completed |-> Bind(completed),
              created_at |-> created_at, updated_at |-> Null]
        ELSE table[i]]

\* UPDATE tasks SET <staged columns> WHERE id = ?; no row matches an absent id
SqlUpdate(table, id, staged) ==
    [i \in DOMAIN table |->
        IF i = id
        THEN [c \in DOMAIN table[i] |->
                IF c \in DOMAIN staged THEN Bind(staged[c]) ELSE table[i][c]]
        ELSE table[i]]

SqlDelete_all(table, id) == [i \in {} |-> table[i]]

\* DELETE FROM tasks WHERE id = ?
SqlDelete(table, id) == [i \in DOMAIN table \ {id} |-> table[i]]

\* row_to_dict: the row as a dictionary, without 'updated_at' when it is NULL
row_to_dict(row) ==
    IF row.updated_at = Null
    THEN [c \in DOMAIN row \ {"updated_at"} |-> row[c]]
    ELSE row

----------------------------------------------------------------------------
\* The handlers.  Each yields the response and the table it leaves:
\* ticked says whether it read the clock.

Reply(status, body, table, sequence, ticked) ==
    [status |-> status, body |-> body, db |-> table, seq |-> sequence,
     ticked |-> ticked]

Error(status, message, table, sequence) ==
    Reply(status, [error |-> message], table, sequence, FALSE)

\* POST /api/tasks
create_task(table, sequence, data, now) ==
    LET title == Get(data, "title")
        due_date == Get(data, "due_date")
    IN
    IF DOMAIN data = {}                          \* if not data
    THEN Error(400, "Invalid input, JSON required", table, sequence)
    ELSE IF ~Truthy(title)                       \* not title
    THEN Error(400, "Title is required and cannot be empty", table, sequence)
    ELSE IF title.t # "str"                      \* title.strip(): AttributeError
    THEN Error(500, "Internal Server Error", table, sequence)
    ELSE IF strip(title.s) = <<>>                \* not title.strip()
    THEN Error(400, "Title is required and cannot be empty", table, sequence)
    ELSE IF Truthy(due_date) /\ due_date.t # "str"   \* date_str.replace: AttributeError
    THEN Error(500, "Internal Server Error", table, sequence)
    ELSE IF Truthy(due_date) /\ ~validate_date(due_date.s)
    THEN Error(400, "Invalid date format. Use ISO format (YYYY-MM-DD)", table, sequence)
    ELSE LET task_id == lastrowid(table, sequence)
             inserted == SqlInsert(table, task_id, Str(strip(title.s)),
                                   Get(data, "description"), due_date,
                                   Bool(FALSE), Timestamp(now))
         IN  \* SELECT * FROM tasks WHERE id = task_id
             Reply(201, row_to_dict(inserted[task_id]), inserted, task_id, TRUE)

\* GET /api/tasks/<id>
get_task(table, sequence, task_id) ==
    IF task_id \in DOMAIN table
    THEN Reply(200, row_to_dict(table[task_id]), table, sequence, FALSE)
    ELSE Error(404, "Task not found", table, sequence)

\* DELETE /api/tasks/<id>
delete_task(table, sequence, task_id) ==
    IF task_id \notin DOMAIN table
    THEN Error(404, "Task not found", table, sequence)
    ELSE Reply(200, [message |-> "Task deleted successfully"],
               SqlDelete(table, task_id), sequence, FALSE)

\* update_task, lines 165-179: the payload check and the existence probe.
\* Status 0 means the handler goes on to validate and write.
update_probe(table, sequence, task_id, data) ==
    IF DOMAIN data = {}                          \* if not data
    THEN Error(400, "Invalid input, JSON required", table, sequence)
    ELSE IF task_id \notin DOMAIN table          \* SELECT 1 FROM tasks WHERE id = ?
    THEN Error(404, "Task not found", table, sequence)
    ELSE Reply(0, [go |-> TRUE], table, sequence, FALSE)

stage_every_column(data) ==
    [c \in PayloadColumns |->
        IF c \notin DOMAIN data THEN Null
        ELSE CASE c = "title" -> Str(strip(data[c].s))
               [] c = "completed" -> Bool(Truthy(data[c]))
               [] OTHER -> data[c]]

\* update_fields / update_values: the columns the payload names, title
\* trimmed, completed coerced by bool(), the others as given
stage(data) ==
    [c \in DOMAIN data \cap PayloadColumns |->
        CASE c = "title" -> Str(strip(data[c].s))
          [] c = "completed" -> Bool(Truthy(data[c]))
          [] OTHER -> data[c]]

stamp_nothing(staged, now) == staged

\* "Add updated_at timestamp on every modification"
stamp(staged, now) ==
    [c \in DOMAIN staged \cup {"updated_at"} |->
        IF c = "updated_at" THEN Timestamp(now) ELSE staged[c]]

\* update_task, lines 193-226: build the UPDATE, run it if it names a
\* column, read the row back.  row_to_dict(None) raises TypeError when the
\* row is gone, which the handler's except clause turns into a 500.
update_write(table, sequence, task_id, data, now) ==
    LET staged == stage(data)
        written == IF DOMAIN staged # {}
                   THEN SqlUpdate(table, task_id, stamp(staged, now))
                   ELSE table
    IN  IF task_id \in DOMAIN written
        THEN Reply(200, row_to_dict(written[task_id]), written, sequence,
                   DOMAIN staged # {})
        ELSE Reply(500, [error |-> "Internal Server Error"], written, sequence,
                   DOMAIN staged # {})

title_rejected_if_empty(data) ==
    "title" \in DOMAIN data /\ ~Truthy(data["title"])

\* 'title' in data and (not title or not title.strip())
title_rejected(data) ==
    /\ "title" \in DOMAIN data
    /\ \/ ~Truthy(data["title"])
       \/ data["title"].t = "str" /\ strip(data["title"].s) = <<>>

\* due_date and not validate_date(due_date)
date_rejected(data) ==
    LET due_date == Get(data, "due_date")
    IN  Truthy(due_date) /\ due_date.t = "str" /\ ~validate_date(due_date.s)

\* .strip() or .replace() on a value that is not a str: AttributeError
not_text(v) == Truthy(v) /\ v.t # "str"

update_apply_writes_before_date_check(table, sequence, task_id, data, now) ==
    IF title_rejected(data)
    THEN Error(400, "Title cannot be empty", table, sequence)
    ELSE IF not_text(Get(data, "title")) \/ not_text(Get(data, "due_date"))
    THEN Error(500, "Internal Server Error", table, sequence)
    ELSE IF date_rejected(data)
    THEN LET others == [k \in DOMAIN data \ {"due_date"} |-> data[k]]
             w == update_write(table, sequence, task_id, others, now)
         IN  Reply(400, [error |-> "Invalid date format. Use ISO format (YYYY-MM-DD)"],
                   w.db, sequence, w.ticked)
    ELSE update_write(table, sequence, task_id, data, now)

\* update_task, lines 181-229: validation, then the write
update_apply(table, sequence, task_id, data, now) ==
    IF title_rejected(data)
    THEN Error(400, "Title cannot be empty", table, sequence)
    ELSE IF not_text(Get(data, "title"))
    THEN Error(500, "Internal Server Error", table, sequence)
    ELSE IF not_text(Get(data, "due_date"))
    THEN Error(500, "Internal Server Error", table, sequence)
    ELSE IF date_rejected(data)
    THEN Error(400, "Invalid date format. Use ISO format (YYYY-MM-DD)", table, sequence)
    ELSE update_write(table, sequence, task_id, data, now)

\* PUT /api/tasks/<id>, run without another request in between
update_task(table, sequence, task_id, data, now) ==
    LET probe == update_probe(table, sequence, task_id, data)
    IN  IF probe.status = 0
        THEN update_apply(table, sequence, task_id, data, now)
        ELSE probe

----------------------------------------------------------------------------
\* The requests a client sends

TextA == <<" ", "a", " ">>
TextB == <<"b">>
TextD == <<"d">>
Blank == <<" ", "\t">>
GoodDate == <<"2", "0", "2", "4", "-", "0", "1", "-", "0", "1", "T",
              "0", "0", ":", "0", "0", ":", "0", "0", "Z">>
BadDate == <<"n", "o", "t", "-", "a", "-", "d", "a", "t", "e">>
BadDay == <<"2", "0", "2", "3", "-", "0", "2", "-", "2", "9">>
LeapDay == <<"2", "0", "2", "4", "-", "0", "2", "-", "2", "9">>

EmptyObject == [k \in {} |-> Null]
CompletedTrue == [completed |-> Bool(TRUE)]
BlankTitleAndMore == [title |-> Str(Blank), completed |-> Bool(TRUE)]
BadDateAndMore == [title |-> Str(TextB), due_date |-> Str(BadDate)]
EmptyDate == [title |-> Str(TextB), due_date |-> Str(<<>>)]

Payloads ==
    { EmptyObject,
      [foo |-> Num(1)],
      CompletedTrue,
      [completed |-> Num(0)],
      [title |-> Str(TextA)],
      [title |-> Str(TextB), description |-> Str(TextD)],
      [title |-> Str(TextA), due_date |-> Str(GoodDate)],
      [title |-> Str(<<>>)],
      [title |-> Null, description |-> Str(TextD)],
      [title |-> Num(5)],
      BlankTitleAndMore,
      [description |-> Null],
      [due_date |-> Null],
      [due_date |-> Str(BadDay)],
      BadDateAndMore,
      EmptyDate,
      [due_date |-> Str(<<>>)],
      [due_date |-> Str(GoodDate)],
      [description |-> Str(TextD), completed |-> Bool(FALSE)],
      [title |-> Str(TextB), description |-> Str(TextD),
       due_date |-> Str(LeapDay), completed |-> Bool(TRUE)] }

TaskIds == 1..MaxId

NoExchange == [op |-> "none"]
Exchange(op, id, data, r) ==
    [op |-> op, id |-> id, data |-> data, status |-> r.status, body |-> r.body]

NoUpdate == [id |-> 0, data |-> EmptyObject]

Init ==
    /\ db = [i \in {} |-> Null]
    /\ seq = 0
    /\ clock = 0
    /\ exch = NoExchange
    /\ inflight = NoUpdate
    /\ created = {}
    /\ applied = {}

CreateTask ==
    /\ exch.op = "none" /\ inflight.id = 0
    /\ \E data \in Payloads :
         LET r == create_task(db, seq, data, clock + 1)
         IN  /\ r.ticked => (clock < MaxClock /\ seq < MaxId)
             /\ db' = r.db
             /\ seq' = r.seq
             /\ clock' = IF r.ticked THEN clock + 1 ELSE clock
             /\ exch' = Exchange("create", 0, data, r)
             /\ created' = IF r.status = 201 THEN created \cup {r.body.id}
                           ELSE created
    /\ UNCHANGED <<inflight, applied>>

GetTask ==
    /\ exch.op = "none" /\ inflight.id = 0
    /\ \E task_id \in TaskIds :
         LET r == get_task(db, seq, task_id)
         IN  exch' = Exchange("get", task_id, EmptyObject, r)
    /\ UNCHANGED <<db, seq, clock, inflight, created, applied>>

UpdateTask ==
    /\ exch.op = "none" /\ inflight.id = 0
    /\ \E task_id \in TaskIds, data \in Payloads :
         LET r == update_task(db, seq, task_id, data, clock + 1)
         IN  /\ r.ticked => clock < MaxClock
             /\ db' = r.db
             /\ clock' = IF r.ticked THEN clock + 1 ELSE clock
             /\ exch' = Exchange("update", task_id, data, r)
             /\ applied' = IF r.status = 200 /\ DOMAIN data \cap PayloadColumns # {}
                           THEN applied \cup {task_id}
                           ELSE applied
    /\ UNCHANGED <<seq, inflight, created>>

DeleteTask ==
    /\ exch.op = "none"
    /\ \E task_id \in TaskIds :
         LET r == delete_task(db, seq, task_id)
         IN  /\ db' = r.db
             /\ exch' = Exchange("delete", task_id, EmptyObject, r)
    /\ UNCHANGED <<seq, clock, inflight, created, applied>>

\* The response leaves the server
Deliver ==
    /\ exch.op # "none"
    /\ exch' = NoExchange
    /\ UNCHANGED <<db, seq, clock, inflight, created, applied>>

\* Requests handled one after the other
Next == CreateTask \/ GetTask \/ UpdateTask \/ DeleteTask \/ Deliver

Spec == Init /\ [][Next]_vars

\* An update_task request whose two statements are separated by other
\* requests' commits: the probe of lines 176-179 ...
UpdateProbe ==
    /\ exch.op = "none" /\ inflight.id = 0
    /\ \E task_id \in TaskIds, data \in Payloads :
         LET r == update_probe(db, seq, task_id, data)
         IN  IF r.status = 0
             THEN /\ inflight' = [id |-> task_id, data |-> data]
                  /\ exch' = exch
             ELSE /\ inflight' = inflight
                  /\ exch' = Exchange("update", task_id, data, r)
    /\ UNCHANGED <<db, seq, clock, created, applied>>

\* ... and the rest of the handler, lines 181-229
UpdateApply ==
    /\ exch.op = "none" /\ inflight.id # 0
    /\ LET r == update_apply(db, seq, inflight.id, inflight.data, clock + 1)
       IN  /\ r.ticked => clock < MaxClock
           /\ db' = r.db
           /\ clock' = IF r.ticked THEN clock + 1 ELSE clock
           /\ exch' = Exchange("update", inflight.id, inflight.data, r)
           /\ applied' = IF /\ r.status = 200
                            /\ DOMAIN inflight.data \cap PayloadColumns # {}
                         THEN applied \cup {inflight.id}
                         ELSE applied
    /\ inflight' = NoUpdate
    /\ UNCHANGED <<seq, created>>

\* Requests of two clients: an update in two steps, and the deletes that
\* may commit between them
NextConc ==
    CreateTask \/ GetTask \/ DeleteTask \/ Deliver \/ UpdateProbe \/ UpdateApply

SpecConc == Init /\ [][NextConc]_vars

----------------------------------------------------------------------------
\* Properties

\* A handler has just answered a request of this kind
Handled(op) == exch.op = "none" /\ exch'.op = op

IsBlankText(s) == \A i \in 1..Len(s) : s[i] \in Whitespace

IsTrimmed(s) == s # <<>> /\ s[1] \notin Whitespace /\ s[Len(s)] \notin Whitespace

\* t is s without its leading and trailing whitespace
IsTrimOf(t, s) ==
    /\ IsTrimmed(t)
    /\ \E i \in 0..Len(s) :
         /\ i + Len(t) <= Len(s)
         /\ SubSeq(s, i + 1, i + Len(t)) = t
         /\ \A k \in 1..i : s[k] \in Whitespace
         /\ \A k \in (i + Len(t) + 1)..Len(s) : s[k] \in Whitespace

ValidationErrors ==
    { "Title is required and cannot be empty", "Title cannot be empty",
      "Invalid date format. Use ISO format (YYYY-MM-DD)" }

\* C1: an update answered 200 overwrites, in the addressed row only, the
\* columns among title, description, due_date and completed that the payload
\* names (title trimmed, completed as 0 or 1) and, when it names one,
\* updated_at; the columns it does not name, id and created_at keep their
\* values, and every other row is unchanged.
C1_PartialUpdateFrame ==
    [][ (Handled("update") /\ exch'.status = 200) =>
          LET id == exch'.id
              data == exch'.data
          IN  /\ id \in DOMAIN db
              /\ DOMAIN db' = DOMAIN db
              /\ \A j \in DOMAIN db \ {id} : db'[j] = db[j]
              /\ db'[id].id = db[id].id
              /\ db'[id].created_at = db[id].created_at
              /\ \A c \in PayloadColumns \ DOMAIN data : db'[id][c] = db[id][c]
              /\ "title" \in DOMAIN data =>
                    IsTrimOf(db'[id].title.s, data["title"].s)
              /\ "description" \in DOMAIN data =>
                    db'[id].description = data["description"]
              /\ "due_date" \in DOMAIN data => db'[id].due_date = data["due_date"]
              /\ "completed" \in DOMAIN data =>
                    db'[id].completed =
                        Num(IF Truthy(data["completed"]) THEN 1 ELSE 0)
              /\ db'[id].updated_at =
                    IF DOMAIN data \cap PayloadColumns = {}
                    THEN db[id].updated_at
                    ELSE Timestamp(clock')
      ]_vars

\* {"completed": true} has been applied to one of two tasks, whose
\* description and due_date were set before
C1_Witness ==
    /\ exch.op = "update" /\ exch.status = 200
    /\ DOMAIN exch.data = {"completed"} /\ exch.data["completed"] = Bool(TRUE)
    /\ Cardinality(DOMAIN db) = 2
    /\ db[exch.id].completed = Num(1)
    /\ db[exch.id].description = Str(TextD)
    /\ db[exch.id].due_date = Str(LeapDay)

\* C2 (as claimed): an update of an existing task whose payload names none of
\* the four columns, the empty object included, writes nothing and answers
\* 200 with the unchanged record.
C2_ColumnlessUpdateSucceeds ==
    [][ ( /\ Handled("update")
          /\ exch'.id \in DOMAIN db
          /\ DOMAIN exch'.data \cap PayloadColumns = {} ) =>
          /\ db' = db
          /\ exch'.status = 200
          /\ exch'.body = row_to_dict(db[exch'.id])
      ]_vars

\* C3 (as claimed): every stored due_date that is not NULL is a text
\* validate_date accepts.
C3_StoredDueDateValid ==
    \A i \in DOMAIN db :
        \/ db[i].due_date = Null
        \/ db[i].due_date.t = "str" /\ validate_date(db[i].due_date.s)

\* C4 (as claimed): a get or an update addressed to an id with no record
\* answers 404 and changes no record, whatever the payload.
C4_AbsentIdNotFound ==
    [][ ( /\ Handled("get") \/ Handled("update")
          /\ exch'.id \notin DOMAIN db ) =>
          /\ exch'.status = 404
          /\ db' = db
      ]_vars

\* C5: a create or an update answered 400 for an empty title or a bad date
\* leaves the table, the id sequence and the clock as they were.
C5_RejectedLeavesStore ==
    [][ ( /\ exch.op = "none"
          /\ exch'.op \in {"create", "update"}
          /\ exch'.status = 400
          /\ exch'.body.error \in ValidationErrors ) =>
          /\ db' = db
          /\ seq' = seq
          /\ clock' = clock
      ]_vars

\* An update of an existing task was rejected for its due_date while its
\* payload also carried a valid title, which was not stored
C5_Witness ==
    /\ exch.op = "update" /\ exch.status = 400
    /\ exch.body.error = "Invalid date format. Use ISO format (YYYY-MM-DD)"
    /\ exch.id \in DOMAIN db
    /\ "title" \in DOMAIN exch.data
    /\ exch.data["title"] = Str(TextB)
    /\ db[exch.id].title = Str(<<"a">>)

\* C6: a stored task has updated_at, and shows it in its representation,
\* exactly when an update naming a column has been applied to it since it
\* was created; a task as created has none; once set it is never cleared.
C6_UpdatedAtIffUpdated ==
    /\ [] ( /\ \A i \in DOMAIN db :
                /\ db[i].updated_at # Null <=> i \in applied
                /\ "updated_at" \in DOMAIN row_to_dict(db[i]) <=> i \in applied
            /\ (exch.op = "create" /\ exch.status = 201) =>
                /\ "updated_at" \notin DOMAIN exch.body
                /\ db[exch.body.id].updated_at = Null )
    /\ [][ \A i \in DOMAIN db \cap DOMAIN db' :
              db[i].updated_at # Null => db'[i].updated_at # Null ]_vars

\* Of two tasks one has been updated, and the other has just answered 200 to
\* an update that names no column and still has no updated_at
C6_Witness ==
    /\ exch.op = "update" /\ exch.status = 200
    /\ DOMAIN exch.data \cap PayloadColumns = {}
    /\ "updated_at" \notin DOMAIN exch.body
    /\ \E i \in DOMAIN db :
         /\ i # exch.id
         /\ db[i].updated_at = Timestamp(clock)
         /\ db[i].created_at # Timestamp(clock)

\* A title key whose value is null, empty or only whitespace
BlankTitle(v) == v = Null \/ (v.t = "str" /\ IsBlankText(v.s))

\* C7: no stored title is empty or only whitespace.  A create whose title
\* is missing, empty or blank, and an update of an existing task whose
\* payload has a title key with a null, empty or blank value, answer 400 and
\* store nothing (an update of an absent id answers 404 first, C4); an
\* accepted title is stored trimmed.
C7_TitleNeverBlank ==
    /\ [] ( \A i \in DOMAIN db :
                db[i].title.t = "str" /\ IsTrimmed(db[i].title.s) )
    /\ [][ /\ ( Handled("create") /\ BlankTitle(Get(exch'.data, "title")) ) =>
                exch'.status = 400 /\ db' = db
           /\ ( /\ Handled("update")
                /\ "title" \in DOMAIN exch'.data
                /\ BlankTitle(exch'.data["title"]) ) =>
                /\ db' = db
                /\ exch'.status = IF exch'.id \in DOMAIN db THEN 400 ELSE 404
           /\ ( Handled("create") /\ exch'.status = 201 ) =>
                IsTrimOf(db'[exch'.body.id].title.s, exch'.data["title"].s)
           /\ ( /\ Handled("update")
                /\ exch'.status = 200
                /\ "title" \in DOMAIN exch'.data ) =>
                IsTrimOf(db'[exch'.id].title.s, exch'.data["title"].s)
         ]_vars

\* An update of an existing task whose payload carries a blank title and a
\* valid completed has been answered 400, and neither was stored
C7_Witness ==
    /\ exch.op = "update" /\ exch.status = 400
    /\ exch.id \in DOMAIN db
    /\ "title" \in DOMAIN exch.data
    /\ exch.data["title"] = Str(Blank)
    /\ "completed" \in DOMAIN exch.data
    /\ db[exch.id].title = Str(<<"a">>)
    /\ db[exch.id].completed = Num(0)

\* C8: a delete of an existing id answers 200, removes that row and leaves
\* every other row as it was; a delete of an id with no row answers 404 and
\* changes nothing, and so does a get of it; an id that was assigned and
\* whose row is gone never has a row again.
C8_DeleteRemovesForGood ==
    [][ /\ Handled("delete") =>
             IF exch'.id \in DOMAIN db
             THEN /\ exch'.status = 200
                  /\ DOMAIN db' = DOMAIN db \ {exch'.id}
                  /\ \A j \in DOMAIN db' : db'[j] = db[j]
             ELSE /\ exch'.status = 404
                  /\ db' = db
        /\ Handled("get") =>
             /\ db' = db
             /\ exch'.id \notin DOMAIN db => exch'.status = 404
        /\ \A i \in created \ DOMAIN db : i \notin DOMAIN db'
      ]_vars

\* The same delete repeated: the id was assigned, its row is gone, a newer
\* task exists, and the delete has answered 404
C8_Witness ==
    /\ exch.op = "delete" /\ exch.status = 404
    /\ exch.id \in created
    /\ exch.id \notin DOMAIN db
    /\ \E j \in DOMAIN db : j > exch.id

\* A payload create accepts: a title with a character that is not
\* whitespace, and a due_date that is absent, null or accepted by
\* validate_date
ValidCreate(data) ==
    /\ "title" \in DOMAIN data
    /\ data["title"].t = "str" /\ ~IsBlankText(data["title"].s)
    /\ LET due_date == Get(data, "due_date")
       IN  \/ due_date = Null
           \/ due_date.t = "str" /\ validate_date(due_date.s)

\* C9: a create with a non-blank title and an absent or valid due_date
\* answers 201 and adds exactly one row, under an id no task ever had, with
\* completed 0, created_at set, updated_at NULL, the title trimmed and the
\* other fields as given; the body it returns is what a get of that id
\* returns next.
C9_CreateAddsFreshRecord ==
    [][ ( Handled("create") /\ ValidCreate(exch'.data) ) =>
          /\ exch'.status = 201
          /\ LET id == exch'.body.id
                 data == exch'.data
             IN  /\ id \notin created
                 /\ id \notin DOMAIN db
                 /\ DOMAIN db' = DOMAIN db \cup {id}
                 /\ \A j \in DOMAIN db : db'[j] = db[j]
                 /\ db'[id].id = id
                 /\ db'[id].completed = Num(0)
                 /\ db'[id].created_at = Timestamp(clock')
                 /\ db'[id].updated_at = Null
                 /\ IsTrimOf(db'[id].title.s, data["title"].s)
                 /\ db'[id].description = Get(data, "description")
                 /\ db'[id].due_date = Get(data, "due_date")
                 /\ "updated_at" \notin DOMAIN exch'.body
                 /\ get_task(db', seq', id).status = 200
                 /\ get_task(db', seq', id).body = exch'.body
      ]_vars

\* A task has been created after the first one was deleted: it has a new
\* id, a trimmed title and the due_date it was given
C9_Witness ==
    /\ exch.op = "create" /\ exch.status = 201
    /\ Cardinality(created) = 2
    /\ DOMAIN db = {exch.body.id}
    /\ exch.data["title"] = Str(TextA)
    /\ exch.body.title = Str(<<"a">>)
    /\ exch.body.due_date = Str(GoodDate)

\* C10 (as claimed): an update whose task is deleted between its existence
\* probe and its UPDATE statement changes no row and does not answer 500.
C10_RacedUpdateSilent ==
    [][ ( /\ inflight.id # 0
          /\ inflight'.id = 0
          /\ inflight.id \notin DOMAIN db ) =>
          /\ db' = db
          /\ exch'.status # 500
      ]_vars

====
